---- MODULE Spec2Model ----
(***************************************************************************)
(* Model of the catalog scripts of square-inventory-project.               *)
(*                                                                         *)
(* scripts/utilities/create-merged-catalog.py is modelled as a state       *)
(* machine: the three loaded tables are indexed by cleaned Item Name, one  *)
(* merged row is built per key in sorted key order, and the result is      *)
(* sorted by Item Name and written.  The two scoring functions are also    *)
(* exercised on their own (SpecEval) over texts around the 100 character   *)
(* threshold.                                                              *)
(*                                                                         *)
(* The smaller scripts have a state machine each: SpecCompare is           *)
(* compare-products-for-merge.py, SpecValidate is validate_values,         *)
(* SpecWrite is safe_excel_write, SpecUpdate is manual-seo-updates.py and  *)
(* SpecNormalize is normalize_multi_category_cell applied twice.  The      *)
(* variables of the scripts a specification does not run keep their idle   *)
(* values.                                                                 *)
(*                                                                         *)
(* A cell value is a sequence of one-character strings (a text) or NaN.    *)
(* Texts that are only ever copied or compared as a whole (SEO titles of   *)
(* the update list, marker cells) are one-element sequences.               *)
(***************************************************************************)
EXTENDS Integers, Sequences, FiniteSets, TLC

VARIABLES
    square_df,          \* rows loaded from the Square export
    palka_df,           \* rows loaded from the Palka catalog
    tbd_df,             \* rows loaded from the TBDLabz catalog
    product_index,      \* cleaned name -> [square, palka, tbd: Seq(row)]
    todo,               \* keys the merge loop still has to visit, sorted
    merged_catalog,     \* merged rows built so far
    merge_count,
    products_processed,
    output_file,        \* rows written to the output workbook
    pc,                 \* position in the script
    eval_title,         \* arguments and result of a scoring call
    eval_desc,
    eval_score,
    loaded,             \* the sources whose workbook has been read
    all_products,       \* compare-products: cleaned name -> product entry
    source_counts,      \* compare-products: the source overlap totals
    v_columns,          \* validator: column names of the table
    v_cells,            \* validator: the rows of the table
    v_fields,           \* validator: expected-value fields still to check
    errors,             \* validator: problems found so far
    printed,            \* validator: what has been printed
    w_columns,          \* safe writer: the columns of the frame, in order
    w_file,             \* safe writer: the columns written to the workbook
    u_input,            \* SEO updates: the workbook that is read
    u_df,               \* SEO updates: the frame being updated
    u_next,             \* SEO updates: position in seo_updates
    updated_count,
    u_output,           \* SEO updates: the workbook that is written
    n_cell,             \* category normalizer: the cell, then its results
    n_once,
    n_twice

merge_vars == <<square_df, palka_df, tbd_df, product_index, todo,
                merged_catalog, merge_count, products_processed, output_file,
                loaded>>

eval_vars == <<eval_title, eval_desc, eval_score>>

compare_vars == <<all_products, source_counts>>

validate_vars == <<v_columns, v_cells, v_fields, errors, printed>>

write_vars == <<w_columns, w_file>>

update_vars == <<u_input, u_df, u_next, updated_count, u_output>>

normalize_vars == <<n_cell, n_once, n_twice>>

\* the variables of the scripts other than the merge and the scoring calls
tool_vars == <<compare_vars, validate_vars, write_vars, update_vars,
               normalize_vars>>

vars == <<merge_vars, pc, eval_vars, tool_vars>>

----------------------------------------------------------------------------
(* Cell values *)

\* pandas' missing value; no text contains this token
NaN == <<"<NaN>">>

isna(v) == v = NaN

\* str(v): a missing value prints as the text nan
NanText == <<"n", "a", "n">>

str(v) == IF isna(v) THEN NanText ELSE v

\* Python truthiness of a cell: NaN is a non-zero float, a text is true
\* unless it is empty
truthy(v) == IF isna(v) THEN TRUE ELSE Len(v) > 0

\* '.' in s
has_period(s) == \E i \in 1..Len(s) : s[i] = "."

\* characters in code point order, as Python compares them
CharOrder ==
    <<" ", ",", ".", "A", "B", "C", "L", "R", "T", "Z", "\\", "a", "b", "c",
      "d", "e", "h", "i", "n", "o", "p", "r", "t", "u", "x", "y", "z">>

ord(c) == CHOOSE i \in 1..Len(CharOrder) : CharOrder[i] = c

\* str.lower() on one character
lower_char(c) == IF c = "A" THEN "a" ELSE IF c = "B" THEN "b" ELSE c

lower(s) == [i \in 1..Len(s) |-> lower_char(s[i])]

RECURSIVE lstrip(_)
lstrip(s) == IF s # <<>> /\ Head(s) = " " THEN lstrip(Tail(s)) ELSE s

RECURSIVE rstrip(_)
rstrip(s) ==
    IF s # <<>> /\ s[Len(s)] = " " THEN rstrip(SubSeq(s, 1, Len(s) - 1)) ELSE s

strip(s) == rstrip(lstrip(s))

\* Python's < on two texts
RECURSIVE str_less(_, _)
str_less(a, b) ==
    IF b = <<>> THEN FALSE
    ELSE IF a = <<>> THEN TRUE
    ELSE IF Head(a) # Head(b) THEN ord(Head(a)) < ord(Head(b))
    ELSE str_less(Tail(a), Tail(b))

----------------------------------------------------------------------------
(* Scoring functions *)

PeriodBonus == 50
DetailThreshold == 100
DetailBonus == 100
SeoPartBase == 100

\* lower-casing without trimming
clean_name_untrimmed(name) == IF isna(name) THEN <<>> ELSE lower(str(name))

clean_name(name) == IF isna(name) THEN <<>> ELSE strip(lower(str(name)))

is_empty_desc(desc) == isna(desc) \/ str(desc) = NanText \/ ~truthy(desc)

\* the detail bonus granted from the threshold on
evaluate_description_from_threshold(desc) ==
    IF is_empty_desc(desc) THEN 0
    ELSE Len(str(desc))
         + (IF has_period(str(desc)) THEN PeriodBonus ELSE 0)
         + (IF Len(str(desc)) >= DetailThreshold THEN DetailBonus ELSE 0)

evaluate_description(desc) ==
    IF is_empty_desc(desc) THEN 0
    ELSE Len(str(desc))
         + (IF has_period(str(desc)) THEN PeriodBonus ELSE 0)
         + (IF Len(str(desc)) > DetailThreshold THEN DetailBonus ELSE 0)

seo_part_counts(v) == ~isna(v) /\ str(v) # NanText

evaluate_seo(title, desc) ==
    (IF seo_part_counts(title) THEN SeoPartBase + Len(str(title)) ELSE 0)
    + (IF seo_part_counts(desc) THEN SeoPartBase + Len(str(desc)) ELSE 0)

----------------------------------------------------------------------------
(* Input tables *)

\* most rows the three tables hold together, when rows repeat a name
MaxRows == 3

\* longest tail appended to a run of filler characters in a scored text
MaxSuffix == 2

SourceOrder == <<"square", "palka", "tbd">>

Sources == {SourceOrder[i] : i \in 1..Len(SourceOrder)}

Row(name, desc, seo_title, seo_desc, cats, sku) ==
    [ItemName |-> name, Description |-> desc, SEOTitle |-> seo_title,
     SEODescription |-> seo_desc, Categories |-> cats, SKU |-> sku]

\* the SKU column names the source and the position of the row
Sku(src, i) == <<src, ToString(i)>>

Descs == {NaN, <<>>, <<"a", "b">>, <<"c", "d">>, <<"a", ".">>}
SeoTitles == {NaN, <<"t">>, <<"u", "u">>}
SeoDescs == {NaN, <<"d">>, <<"e", "e">>}
Cats == {NaN, <<"x">>, <<"y">>}

\* the cells of a row other than its name and SKU:
\* <<Description, SEO Title, SEO Description, Categories>>
FullCells == << <<"a", "b">>, <<"t">>, <<"d">>, <<"x">> >>
OtherCells == << <<"c", "d">>, <<"u", "u">>, <<"e", "e">>, <<"y">> >>
BareCells == <<NaN, NaN, NaN, NaN>>

CellChoices ==
    {<<d, NaN, NaN, NaN>> : d \in Descs}
    \cup {<<NaN, t, d, NaN>> : t \in SeoTitles, d \in SeoDescs}
    \cup {<<NaN, NaN, NaN, c>> : c \in Cats}
    \cup {<<d, t, s, c>> : d \in {NaN, <<"a", "b">>, <<"a", ".">>},
                           t \in {NaN, <<"t">>}, s \in {NaN, <<"d">>},
                           c \in {NaN, <<"x">>}}
    \cup {OtherCells}

\* the same product as each catalog spells it
SpelledName == [s \in Sources |->
    IF s = "square" THEN <<"A">>
    ELSE IF s = "palka" THEN <<"a", " ">> ELSE <<" ", "a">>]

Names == {NaN, <<"A">>, <<"a", " ">>, <<"B">>}

\* one product, at most one row per catalog, any cell contents
OneProductTable(src) ==
    {<<>>} \cup
    {<<Row(SpelledName[src], c[1], c[2], c[3], c[4], Sku(src, 1))>> :
        c \in CellChoices}

\* n rows with any names, each row filled in or bare
NamedTable(src, n) ==
    {[i \in 1..n |->
        Row(names[i], cells[i][1], cells[i][2], cells[i][3], cells[i][4],
            Sku(src, i))] :
        names \in [1..n -> Names], cells \in [1..n -> {FullCells, BareCells}]}

TableSizes ==
    {sz \in [Sources -> 0..MaxRows] :
        sz["square"] + sz["palka"] + sz["tbd"] <= MaxRows}

----------------------------------------------------------------------------
(* Indexing *)

EmptyEntry == [s \in Sources |-> <<>>]

\* product_index[name][src].append(row), creating the entry when missing
index_add(index, name, src, row) ==
    LET entry == IF name \in DOMAIN index THEN index[name] ELSE EmptyEntry
    IN  [k \in DOMAIN index \cup {name} |->
            IF k = name THEN [entry EXCEPT ![src] = Append(@, row)]
            ELSE index[k]]

RECURSIVE index_rows(_, _, _, _)
index_rows(index, df, i, src) ==
    IF i > Len(df) THEN index
    ELSE LET name == clean_name(df[i].ItemName)
         IN  IF name # <<>>
             THEN index_rows(index_add(index, name, src, df[i]), df, i + 1, src)
             ELSE index_rows(index, df, i + 1, src)

\* sorted(keys)
RECURSIVE sorted_keys(_)
sorted_keys(ks) ==
    IF ks = {} THEN <<>>
    ELSE LET least == CHOOSE k \in ks : \A o \in ks \ {k} : str_less(k, o)
         IN  <<least>> \o sorted_keys(ks \ {least})

----------------------------------------------------------------------------
(* Building one merged row *)

has_rows(rows) == Len(rows) > 0

\* the most recent row instead of the first
last_row(rows) == rows[Len(rows)]

\* sources[src][0]
best_row(rows) == rows[1]

\* row.get(column, '') of the best row, '' when the source has no row
descriptions(sources) == [s \in Sources |->
    IF has_rows(sources[s]) THEN best_row(sources[s]).Description ELSE <<>>]

seo_data(sources) == [s \in Sources |->
    [title |-> IF has_rows(sources[s])
               THEN best_row(sources[s]).SEOTitle ELSE <<>>,
     desc  |-> IF has_rows(sources[s])
               THEN best_row(sources[s]).SEODescription ELSE <<>>]]

desc_scores(sources) == [s \in Sources |->
    evaluate_description(descriptions(sources)[s])]

seo_scores(sources) == [s \in Sources |->
    evaluate_seo(seo_data(sources)[s].title, seo_data(sources)[s].desc)]

\* max(scores, key=scores.get): one scan over the keys in insertion order,
\* replacing the candidate only by a strictly larger score
RECURSIVE max_scan(_, _, _)
max_scan(scores, i, best) ==
    IF i > Len(SourceOrder) THEN best
    ELSE max_scan(scores, i + 1,
                  IF scores[SourceOrder[i]] > scores[best]
                  THEN SourceOrder[i] ELSE best)

\* a scan that lets a later source with an equal score replace the candidate
RECURSIVE max_scan_last(_, _, _)
max_scan_last(scores, i, best) ==
    IF i > Len(SourceOrder) THEN best
    ELSE max_scan_last(scores, i + 1,
                       IF scores[SourceOrder[i]] >= scores[best]
                       THEN SourceOrder[i] ELSE best)

max_key_last(scores) == max_scan_last(scores, 2, SourceOrder[1])

max_key(scores) == max_scan(scores, 2, SourceOrder[1])

\* if scores[best] > 0: the best source wins only with a positive score
score_wins_at_zero(scores, best) == scores[best] >= 0

score_wins(scores, best) == scores[best] > 0

\* sep.join(items), as the sequence of its pieces
RECURSIVE join(_, _)
join(items, sep) ==
    IF items = <<>> THEN <<>>
    ELSE IF Len(items) = 1 THEN items
    ELSE <<Head(items), sep>> \o join(Tail(items), sep)

\* the comprehension without its filter
select_all(items, keep) == items

\* [x for x in items if keep[x]] over a sequence
RECURSIVE select(_, _)
select(items, keep) ==
    IF items = <<>> THEN <<>>
    ELSE (IF keep[Head(items)] THEN <<Head(items)>> ELSE <<>>)
         \o select(Tail(items), keep)

note(field, src) == field \o ":" \o src

\* the base taken from the curated catalog first
base_source_palka_first(sources) ==
    IF has_rows(sources["palka"]) THEN "palka"
    ELSE IF has_rows(sources["square"]) THEN "square"
    ELSE IF has_rows(sources["tbd"]) THEN "tbd"
    ELSE "none"

base_source(sources) ==
    IF has_rows(sources["square"]) THEN "square"
    ELSE IF has_rows(sources["palka"]) THEN "palka"
    ELSE IF has_rows(sources["tbd"]) THEN "tbd"
    ELSE "none"

\* the two category branches in the opposite order
category_source_square_first(sources) ==
    IF has_rows(sources["square"])
       /\ ~isna(best_row(sources["square"]).Categories) THEN "square"
    ELSE IF has_rows(sources["palka"])
       /\ ~isna(best_row(sources["palka"]).Categories) THEN "palka"
    ELSE "none"

\* the source whose Categories overwrite the base row's, or "none"
category_source(sources) ==
    IF has_rows(sources["palka"])
       /\ ~isna(best_row(sources["palka"]).Categories) THEN "palka"
    ELSE IF has_rows(sources["square"])
       /\ ~isna(best_row(sources["square"]).Categories) THEN "square"
    ELSE "none"

\* the body of the merge loop for one product; base_source is not "none"
merge_row(sources) ==
    LET base     == best_row(sources[base_source(sources)])
        best_desc_source == max_key(desc_scores(sources))
        desc_won == score_wins(desc_scores(sources), best_desc_source)
        best_seo_source == max_key(seo_scores(sources))
        seo_won  == score_wins(seo_scores(sources), best_seo_source)
        cat_src  == category_source(sources)
        merge_notes ==
            (IF desc_won THEN <<note("desc", best_desc_source)>> ELSE <<>>)
            \o (IF seo_won THEN <<note("seo", best_seo_source)>> ELSE <<>>)
            \o (IF cat_src # "none" THEN <<note("cat", cat_src)>> ELSE <<>>)
    IN  [ItemName |-> base.ItemName,
         SKU |-> base.SKU,
         Description |->
            IF desc_won THEN descriptions(sources)[best_desc_source]
            ELSE base.Description,
         SEOTitle |->
            IF seo_won THEN seo_data(sources)[best_seo_source].title
            ELSE base.SEOTitle,
         SEODescription |->
            IF seo_won THEN seo_data(sources)[best_seo_source].desc
            ELSE base.SEODescription,
         Categories |->
            IF cat_src # "none" THEN best_row(sources[cat_src]).Categories
            ELSE base.Categories,
         _merge_sources |->
            join(select(SourceOrder, [s \in Sources |-> has_rows(sources[s])]),
                 ", "),
         _merge_notes |-> join(merge_notes, ", ")]

\* len(square) + len(palka) + len(tbd) > 1
counts_as_merged(sources) ==
    Len(sources["square"]) + Len(sources["palka"]) + Len(sources["tbd"]) > 1

----------------------------------------------------------------------------
(* Sorting the output *)

\* order of sort_values('Item Name', na_position='last')
name_before(a, b) ==
    IF isna(a) THEN FALSE ELSE IF isna(b) THEN TRUE ELSE str_less(a, b)

RECURSIVE insert_sorted(_, _)
insert_sorted(row, rows) ==
    IF rows = <<>> THEN <<row>>
    ELSE IF name_before(row.ItemName, Head(rows).ItemName)
         THEN <<row>> \o rows
         ELSE <<Head(rows)>> \o insert_sorted(row, Tail(rows))

\* the rows left in the order the merge loop built them
sort_values_skipped(rows) == rows

RECURSIVE sort_values(_)
sort_values(rows) ==
    IF rows = <<>> THEN <<>>
    ELSE insert_sorted(rows[Len(rows)], sort_values(SubSeq(rows, 1, Len(rows) - 1)))

----------------------------------------------------------------------------
(* The merge script *)

InitTables ==
    \/ /\ square_df \in OneProductTable("square")
       /\ palka_df \in OneProductTable("palka")
       /\ tbd_df \in OneProductTable("tbd")
    \/ \E sz \in TableSizes :
        /\ square_df \in NamedTable("square", sz["square"])
        /\ palka_df \in NamedTable("palka", sz["palka"])
        /\ tbd_df \in NamedTable("tbd", sz["tbd"])

\* the values the variables of a script hold while another script runs
MergeIdle ==
    /\ square_df = <<>>
    /\ palka_df = <<>>
    /\ tbd_df = <<>>
    /\ product_index = <<>>
    /\ todo = <<>>
    /\ merged_catalog = <<>>
    /\ merge_count = 0
    /\ products_processed = 0
    /\ output_file = <<>>
    /\ loaded = {}

EvalIdle ==
    /\ eval_title = NaN
    /\ eval_desc = NaN
    /\ eval_score = 0

CompareIdle ==
    /\ all_products = <<>>
    /\ source_counts = <<>>

ValidateIdle ==
    /\ v_columns = {}
    /\ v_cells = <<>>
    /\ v_fields = <<>>
    /\ errors = <<>>
    /\ printed = <<>>

WriteIdle ==
    /\ w_columns = <<>>
    /\ w_file = <<>>

UpdateIdle ==
    /\ u_input = <<>>
    /\ u_df = <<>>
    /\ u_next = 0
    /\ updated_count = 0
    /\ u_output = <<>>

NormalizeIdle ==
    /\ n_cell = NaN
    /\ n_once = NaN
    /\ n_twice = NaN

Init ==
    /\ InitTables
    /\ product_index = <<>>
    /\ todo = <<>>
    /\ merged_catalog = <<>>
    /\ merge_count = 0
    /\ products_processed = 0
    /\ output_file = <<>>
    /\ loaded = {}
    /\ pc = "load"
    /\ EvalIdle
    /\ CompareIdle /\ ValidateIdle /\ WriteIdle /\ UpdateIdle /\ NormalizeIdle

\* the sources read before the read of `failing` raises; all when none does
read_before(failing) ==
    {SourceOrder[i] : i \in {j \in 1..Len(SourceOrder) :
        \A k \in 1..j : SourceOrder[k] # failing}}

\* a partial catalog: the script carries on after a failed read
load_outcome_carry_on(failing) == "index_square"

\* an exception of read_excel ends the script
load_outcome(failing) == IF failing = "none" THEN "index_square" ELSE "aborted"

\* the three read_excel calls, in order; any of them may raise
LoadCatalogs ==
    /\ pc = "load"
    /\ \E failing \in Sources \cup {"none"} :
        /\ loaded' = read_before(failing)
        /\ pc' = load_outcome(failing)
    /\ UNCHANGED <<square_df, palka_df, tbd_df, product_index, todo,
                   merged_catalog, merge_count, products_processed,
                   output_file, eval_vars, tool_vars>>

IndexSquare ==
    /\ pc = "index_square"
    /\ product_index' = index_rows(product_index, square_df, 1, "square")
    /\ pc' = "index_palka"
    /\ UNCHANGED <<square_df, palka_df, tbd_df, todo, merged_catalog,
                   merge_count, products_processed, output_file, loaded,
                   eval_vars, tool_vars>>

IndexPalka ==
    /\ pc = "index_palka"
    /\ product_index' = index_rows(product_index, palka_df, 1, "palka")
    /\ pc' = "index_tbd"
    /\ UNCHANGED <<square_df, palka_df, tbd_df, todo, merged_catalog,
                   merge_count, products_processed, output_file, loaded,
                   eval_vars, tool_vars>>

\* the last indexing loop, then the merge loop takes the sorted items
IndexTbd ==
    /\ pc = "index_tbd"
    /\ product_index' = index_rows(product_index, tbd_df, 1, "tbd")
    /\ todo' = sorted_keys(DOMAIN product_index')
    /\ pc' = "merge"
    /\ UNCHANGED <<square_df, palka_df, tbd_df, merged_catalog,
                   merge_count, products_processed, output_file, loaded,
                   eval_vars, tool_vars>>

\* one iteration of the merge loop
MergeProduct ==
    /\ pc = "merge"
    /\ todo # <<>>
    /\ LET sources == product_index[Head(todo)]
       IN  /\ products_processed' = products_processed + 1
           /\ IF base_source(sources) = "none"
              THEN UNCHANGED <<merged_catalog, merge_count>>
              ELSE /\ merged_catalog' = Append(merged_catalog, merge_row(sources))
                   /\ merge_count' = IF counts_as_merged(sources)
                                     THEN merge_count + 1 ELSE merge_count
    /\ todo' = Tail(todo)
    /\ UNCHANGED <<square_df, palka_df, tbd_df, product_index, output_file,
                   loaded, pc, eval_vars, tool_vars>>

\* after the loop: sort by Item Name and write the workbook; sorting a frame
\* built from no rows fails on the missing column and nothing is written
WriteCatalog ==
    /\ pc = "merge"
    /\ todo = <<>>
    /\ IF merged_catalog = <<>>
       THEN /\ pc' = "failed"
            /\ UNCHANGED output_file
       ELSE /\ output_file' = sort_values(merged_catalog)
            /\ pc' = "done"
    /\ UNCHANGED <<square_df, palka_df, tbd_df, product_index, todo,
                   merged_catalog, merge_count, products_processed, loaded,
                   eval_vars, tool_vars>>

Next ==
    \/ LoadCatalogs
    \/ IndexSquare
    \/ IndexPalka
    \/ IndexTbd
    \/ MergeProduct
    \/ WriteCatalog

Spec == Init /\ [][Next]_vars

----------------------------------------------------------------------------
(* The scoring functions on their own *)

EvalChars == {"a", ".", " "}

Filler(n) == [i \in 1..n |-> "a"]

Suffixes == UNION {[1..n -> EvalChars] : n \in 0..MaxSuffix}

\* texts of length 0.., and just below, at and above the detail threshold
EvalTexts ==
    {NaN, NanText}
    \cup {Filler(n) \o suf :
            n \in {0, DetailThreshold - 2, DetailThreshold}, suf \in Suffixes}

InitEval ==
    /\ eval_title \in EvalTexts
    /\ eval_desc \in EvalTexts
    /\ eval_score = 0
    /\ pc = "eval"
    /\ MergeIdle
    /\ CompareIdle /\ ValidateIdle /\ WriteIdle /\ UpdateIdle /\ NormalizeIdle

CallEvaluateDescription ==
    /\ pc = "eval"
    /\ eval_score' = evaluate_description(eval_desc)
    /\ pc' = "description_scored"
    /\ UNCHANGED <<merge_vars, eval_title, eval_desc, tool_vars>>

CallEvaluateSeo ==
    /\ pc = "eval"
    /\ eval_score' = evaluate_seo(eval_title, eval_desc)
    /\ pc' = "seo_scored"
    /\ UNCHANGED <<merge_vars, eval_title, eval_desc, tool_vars>>

NextEval ==
    \/ CallEvaluateDescription
    \/ CallEvaluateSeo

SpecEval == InitEval /\ [][NextEval]_vars

----------------------------------------------------------------------------
(* compare-products-for-merge: products by source overlap *)

\* a product entry when first seen
NewProduct == [sources |-> <<>>, square |-> <<>>, palka |-> <<>>, tbd |-> <<>>]

in_list(x, items) == \E i \in 1..Len(items) : items[i] = x

\* all_products[name][src] = row, and src appended to the entry's sources;
\* the Palka and TBD loops append only when src is not in the list yet
add_product(products, name, src, row, guarded) ==
    LET entry == IF name \in DOMAIN products THEN products[name] ELSE NewProduct
        added == [entry EXCEPT
                    ![src] = <<row>>,
                    !.sources = IF guarded /\ in_list(src, @)
                                THEN @ ELSE Append(@, src)]
    IN  [k \in DOMAIN products \cup {name} |->
            IF k = name THEN added ELSE products[k]]

RECURSIVE collect_rows(_, _, _, _, _)
collect_rows(products, df, i, src, guarded) ==
    IF i > Len(df) THEN products
    ELSE LET name == clean_name(df[i].ItemName)
         IN  IF name # <<>>
             THEN collect_rows(add_product(products, name, src, df[i], guarded),
                               df, i + 1, src, guarded)
             ELSE collect_rows(products, df, i + 1, src, guarded)

\* sum(1 for p in all_products.values() if len(p['sources']) == n)
count_with_sources(products, n) ==
    Cardinality({k \in DOMAIN products : Len(products[k].sources) = n})

InitCompare ==
    /\ InitTables
    /\ product_index = <<>>
    /\ todo = <<>>
    /\ merged_catalog = <<>>
    /\ merge_count = 0
    /\ products_processed = 0
    /\ output_file = <<>>
    /\ loaded = {}
    /\ all_products = <<>>
    /\ source_counts = <<>>
    /\ pc = "collect_square"
    /\ EvalIdle
    /\ ValidateIdle /\ WriteIdle /\ UpdateIdle /\ NormalizeIdle

CollectSquare ==
    /\ pc = "collect_square"
    /\ all_products' = collect_rows(all_products, square_df, 1, "square", FALSE)
    /\ pc' = "collect_palka"
    /\ UNCHANGED <<merge_vars, eval_vars, source_counts, validate_vars,
                   write_vars, update_vars, normalize_vars>>

CollectPalka ==
    /\ pc = "collect_palka"
    /\ all_products' = collect_rows(all_products, palka_df, 1, "palka", TRUE)
    /\ pc' = "collect_tbd"
    /\ UNCHANGED <<merge_vars, eval_vars, source_counts, validate_vars,
                   write_vars, update_vars, normalize_vars>>

CollectTbd ==
    /\ pc = "collect_tbd"
    /\ all_products' = collect_rows(all_products, tbd_df, 1, "tbd", TRUE)
    /\ pc' = "count"
    /\ UNCHANGED <<merge_vars, eval_vars, source_counts, validate_vars,
                   write_vars, update_vars, normalize_vars>>

CountOverlap ==
    /\ pc = "count"
    /\ source_counts' =
        [single_source |-> count_with_sources(all_products, 1),
         double_source |-> count_with_sources(all_products, 2),
         triple_source |-> count_with_sources(all_products, 3),
         total |-> Cardinality(DOMAIN all_products)]
    /\ pc' = "counted"
    /\ UNCHANGED <<merge_vars, eval_vars, all_products, validate_vars,
                   write_vars, update_vars, normalize_vars>>

NextCompare ==
    \/ CollectSquare
    \/ CollectPalka
    \/ CollectTbd
    \/ CountOverlap

SpecCompare == InitCompare /\ [][NextCompare]_vars

----------------------------------------------------------------------------
(* normalize_categories: normalize_multi_category_cell *)

\* a cell that holds a number, not a text
NotAString == <<"<number>">>

\* isinstance(cat, str)
isinstance_str(cat) == cat # NaN /\ cat # NotAString

TRTR_Curated == <<"T", "R", "T", "R", " ", "C", "u", "r", "a", "t", "e", "d">>

The_Apothecary_Cabinet ==
    <<"T", "h", "e", " ", "A", "p", "o", "t", "h", "e", "c", "a", "r", "y",
      " ", "C", "a", "b", "i", "n", "e", "t">>

Labz == <<"L", "a", "b", "z">>

Curated_Labz == <<"C", "u", "r", "a", "t", "e", "d", " ", "L", "a", "b", "z">>

\* cat.replace(old, "")
remove_char(cat, old) == SelectSeq(cat, LAMBDA c : c # old)

\* cat.split(sep)
RECURSIVE split(_, _)
split(cat, sep) ==
    IF \A i \in 1..Len(cat) : cat[i] # sep THEN <<cat>>
    ELSE LET i == CHOOSE j \in 1..Len(cat) :
                    /\ cat[j] = sep
                    /\ \A k \in 1..(j - 1) : cat[k] # sep
         IN  <<SubSeq(cat, 1, i - 1)>> \o split(SubSeq(cat, i + 1, Len(cat)), sep)

\* [c.strip() for c in pieces if c.strip()]
RECURSIVE stripped_parts(_)
stripped_parts(pieces) ==
    IF pieces = <<>> THEN <<>>
    ELSE IF strip(Head(pieces)) # <<>>
         THEN <<strip(Head(pieces))>> \o stripped_parts(Tail(pieces))
         ELSE stripped_parts(Tail(pieces))

fix_part_labz_kept(p) ==
    IF p = TRTR_Curated THEN The_Apothecary_Cabinet
    ELSE p

\* the if / elif / else of the loop body
fix_part(p) ==
    IF p = TRTR_Curated THEN The_Apothecary_Cabinet
    ELSE IF p = Labz THEN Curated_Labz
    ELSE p

\* sorted(set(...))
RECURSIVE sorted(_)
sorted(items) ==
    IF items = {} THEN <<>>
    ELSE LET least == CHOOSE x \in items :
                        \A y \in items : x = y \/ str_less(x, y)
         IN  <<least>> \o sorted(items \ {least})

\* ", ".join(parts), as one text
RECURSIVE comma_join(_)
comma_join(parts) ==
    IF parts = <<>> THEN <<>>
    ELSE IF Len(parts) = 1 THEN Head(parts)
    ELSE Head(parts) \o <<",", " ">> \o comma_join(Tail(parts))

normalize_multi_category_cell(cat) ==
    IF isna(cat) \/ ~isinstance_str(cat) THEN cat
    ELSE LET cleaned == strip(remove_char(cat, "\\"))
             parts == stripped_parts(split(cleaned, ","))
             fixed_parts == {fix_part(parts[i]) : i \in 1..Len(parts)}
         IN  comma_join(sorted(fixed_parts))

\* the cells tried: up to MaxPieces pieces, one after the other
MaxPieces == 3

Pieces == {Labz, TRTR_Curated, Curated_Labz, <<"Z">>, <<",">>, <<" ">>, <<"\\">>}

RECURSIVE CellsOf(_)
CellsOf(n) ==
    IF n = 0 THEN {<<>>}
    ELSE LET shorter == CellsOf(n - 1)
         IN  shorter \cup {c \o piece : c \in shorter, piece \in Pieces}

CategoryCells == CellsOf(MaxPieces) \cup {NaN, NotAString}

InitNormalize ==
    /\ n_cell \in CategoryCells
    /\ n_once = NaN
    /\ n_twice = NaN
    /\ pc = "normalize"
    /\ MergeIdle /\ EvalIdle
    /\ CompareIdle /\ ValidateIdle /\ WriteIdle /\ UpdateIdle

\* df[column_name].apply(normalize_multi_category_cell) on one cell
Normalize ==
    /\ pc = "normalize"
    /\ n_once' = normalize_multi_category_cell(n_cell)
    /\ pc' = "normalized"
    /\ UNCHANGED <<merge_vars, eval_vars, compare_vars, validate_vars,
                   write_vars, update_vars, n_cell, n_twice>>

\* the same column normalised a second time
NormalizeAgain ==
    /\ pc = "normalized"
    /\ n_twice' = normalize_multi_category_cell(n_once)
    /\ pc' = "renormalized"
    /\ UNCHANGED <<merge_vars, eval_vars, compare_vars, validate_vars,
                   write_vars, update_vars, n_cell, n_once>>

NextNormalize ==
    \/ Normalize
    \/ NormalizeAgain

SpecNormalize == InitNormalize /\ [][NextNormalize]_vars

----------------------------------------------------------------------------
(* square_import_value_validator: validate_values *)
(* Column names are whole strings; cell values are texts. *)

REQUIRED_COLUMNS ==
    {"Reference Handle", "Token", "Item Name", "Variation Name", "SKU",
     "Description", "Categories", "Reporting Category", "SEO Title",
     "SEO Description", "Item Type", "Sold Online", "Available for Sale",
     "Square Online Item Visibility"}

Visible == <<"V", "i", "s", "i", "b", "l", "e">>

Physical == <<"P", "h", "y", "s", "i", "c", "a", "l">>

\* REQUIRED_VALUES.items(), in the order of the literal
REQUIRED_VALUES ==
    <<[field |-> "Square Online Item Visibility", expected |-> Visible],
      [field |-> "Sold Online", expected |-> <<"Y">>],
      [field |-> "Available for Sale", expected |-> <<"Y">>],
      [field |-> "Item Type", expected |-> Physical]>>

ValueFields == {REQUIRED_VALUES[i].field : i \in 1..Len(REQUIRED_VALUES)}

\* Series.unique(): the distinct values in order of first appearance
RECURSIVE unique(_)
unique(values) ==
    IF values = <<>> THEN <<>>
    ELSE LET front == unique(SubSeq(values, 1, Len(values) - 1))
             last == values[Len(values)]
         IN  IF in_list(last, front) THEN front ELSE Append(front, last)

\* df[field].dropna().astype(str).str.strip().unique()
column_values(rows, field) ==
    LET cells == [i \in 1..Len(rows) |-> rows[i][field]]
        kept == SelectSeq(cells, LAMBDA c : ~isna(c))
    IN  unique([i \in 1..Len(kept) |-> strip(kept[i])])

\* the header check: no error, or one naming the missing headers
header_errors(columns) ==
    LET missing_headers == REQUIRED_COLUMNS \ columns
    IN  IF missing_headers # {}
        THEN <<[kind |-> "missing_headers", headers |-> missing_headers]>>
        ELSE <<>>

\* the body of the value loop for one field
value_errors(columns, rows, check) ==
    IF check.field \in columns
    THEN LET values == column_values(rows, check.field)
         IN  IF ~in_list(check.expected, values)
             THEN <<[kind |-> "unexpected_value", field |-> check.field,
                     found |-> values]>>
             ELSE <<>>
    ELSE <<[kind |-> "missing_column", field |-> check.field]>>

append_errors_keep_first(errs, new) == IF errs # <<>> THEN errs ELSE errs \o new

\* errors.append(...)
append_errors(errs, new) == errs \o new

Success == <<[kind |-> "success"]>>

\* the import files tried
MaxCells == 2

MaybeMissing == {"Token", "Sold Online", "Item Type"}

ImportRows ==
    {[f \in ValueFields |->
        CASE f = "Square Online Item Visibility" -> Visible
          [] f = "Sold Online" -> so
          [] f = "Available for Sale" -> av
          [] OTHER -> it] :
        so \in {NaN, <<" ", "Y", " ">>, <<"N">>},
        av \in {<<"Y">>, <<"N">>},
        it \in {Physical, NaN}}

restrict(row, columns) == [f \in DOMAIN row \cap columns |-> row[f]]

InitValidate ==
    /\ \E missing \in SUBSET MaybeMissing :
        /\ v_columns = REQUIRED_COLUMNS \ missing
        /\ \E n \in 0..MaxCells : \E rows \in [1..n -> ImportRows] :
            v_cells = [i \in 1..n |-> restrict(rows[i], v_columns)]
    /\ v_fields = REQUIRED_VALUES
    /\ errors = <<>>
    /\ printed = <<>>
    /\ pc = "check_headers"
    /\ MergeIdle /\ EvalIdle
    /\ CompareIdle /\ WriteIdle /\ UpdateIdle /\ NormalizeIdle

CheckHeaders ==
    /\ pc = "check_headers"
    /\ errors' = append_errors(errors, header_errors(v_columns))
    /\ pc' = "check_values"
    /\ UNCHANGED <<merge_vars, eval_vars, compare_vars, write_vars,
                   update_vars, normalize_vars, v_columns, v_cells, v_fields,
                   printed>>

CheckValue ==
    /\ pc = "check_values"
    /\ v_fields # <<>>
    /\ errors' = append_errors(errors,
                               value_errors(v_columns, v_cells, Head(v_fields)))
    /\ v_fields' = Tail(v_fields)
    /\ UNCHANGED <<merge_vars, eval_vars, compare_vars, write_vars,
                   update_vars, normalize_vars, v_columns, v_cells, printed, pc>>

Report ==
    /\ pc = "check_values"
    /\ v_fields = <<>>
    /\ printed' = IF errors # <<>> THEN errors ELSE Success
    /\ pc' = "validated"
    /\ UNCHANGED <<merge_vars, eval_vars, compare_vars, write_vars,
                   update_vars, normalize_vars, v_columns, v_cells, v_fields,
                   errors>>

NextValidate ==
    \/ CheckHeaders
    \/ CheckValue
    \/ Report

SpecValidate == InitValidate /\ [][NextValidate]_vars

----------------------------------------------------------------------------
(* safe_excel_write *)
(* A frame is the sequence of its columns, each a header and one cell.  The
   cell of the column at position i names that position. *)

Unnamed_0 == <<"U", "n", "n", "a", "m", "e", "d", ":", " ", "0">>

\* df.columns.astype(str).str.strip()
clean_headers(df) ==
    [i \in 1..Len(df) |-> [df[i] EXCEPT !.header = strip(str(@))]]

\* df.fillna("").astype(str), then strip on every cell
clean_cells(df) ==
    [i \in 1..Len(df) |->
        [df[i] EXCEPT !.cell = strip(str(IF isna(@) THEN <<>> ELSE @))]]

has_column(df, name) == \E i \in 1..Len(df) : df[i].header = name

\* df.drop(columns=[name]): every column carrying the label goes
drop_column(df, name) ==
    IF has_column(df, name)
    THEN SelectSeq(df, LAMBDA col : col.header # name)
    ELSE df

RECURSIVE drop_duplicated_keep_last(_)
drop_duplicated_keep_last(df) ==
    IF df = <<>> THEN <<>>
    ELSE IF has_column(Tail(df), Head(df).header)
         THEN drop_duplicated_keep_last(Tail(df))
         ELSE <<Head(df)>> \o drop_duplicated_keep_last(Tail(df))

\* df.loc[:, ~df.columns.duplicated()]: the first of each label stays
RECURSIVE drop_duplicated(_)
drop_duplicated(df) ==
    IF df = <<>> THEN <<>>
    ELSE LET front == SubSeq(df, 1, Len(df) - 1)
             last == df[Len(df)]
         IN  IF has_column(front, last.header)
             THEN drop_duplicated(front)
             ELSE Append(drop_duplicated(front), last)

\* the frames tried
MaxCols == 3

Headers ==
    {Unnamed_0, <<" ">> \o Unnamed_0, <<"A">>, <<"A", " ">>, <<"B">>,
     NaN, NanText}

Frames ==
    UNION {[1..n -> Headers] : n \in 0..MaxCols}

InitWrite ==
    /\ \E headers \in Frames :
        w_columns = [i \in 1..Len(headers) |->
                        [header |-> headers[i], cell |-> <<" ", ToString(i)>>]]
    /\ w_file = <<>>
    /\ pc = "write"
    /\ MergeIdle /\ EvalIdle
    /\ CompareIdle /\ ValidateIdle /\ UpdateIdle /\ NormalizeIdle

\* one call; w_columns is the caller's frame, whose headers line 11 rewrites
SafeExcelWrite ==
    /\ pc = "write"
    /\ w_columns' = clean_headers(w_columns)
    /\ w_file' = drop_duplicated(
                    drop_column(clean_cells(clean_headers(w_columns)), Unnamed_0))
    /\ pc' = "written"
    /\ UNCHANGED <<merge_vars, eval_vars, compare_vars, validate_vars,
                   update_vars, normalize_vars>>

NextWrite == SafeExcelWrite

SpecWrite == InitWrite /\ [][NextWrite]_vars

----------------------------------------------------------------------------
(* manual-seo-updates *)
(* A catalog row maps column names to cells.  The entries of seo_updates are
   stood for by two entries with one-letter names; their titles,
   descriptions and keywords are one-word texts. *)

InputPath == "MERGED_COMPREHENSIVE_CATALOG_2025-08-03.xlsx"

OutputPath == "CATALOG_WITH_SEO_BATCH1_<timestamp>.xlsx"

seo_updates ==
    <<[name |-> <<"P">>, seo_title |-> <<"title P">>,
       seo_description |-> <<"description P">>, keywords |-> <<"keywords P">>],
      [name |-> <<"Q">>, seo_title |-> <<"title Q">>,
       seo_description |-> <<"description Q">>, keywords |-> <<"keywords Q">>]>>

\* datetime.now().isoformat()
Now == <<"<now>">>

mask_stripped(df, name) ==
    {i \in 1..Len(df) :
        ~isna(df[i]["Item Name"]) /\ strip(df[i]["Item Name"]) = name}

\* df['Item Name'] == update['name']
mask(df, name) == {i \in 1..Len(df) : df[i]["Item Name"] = name}

\* df[mask].index[0]
first_index(rows) == CHOOSE i \in rows : \A j \in rows : i <= j

\* df.loc[idx, column] = value; a column the frame lacks is added, missing
\* in every other row
set_cell(df, idx, column, value) ==
    [i \in 1..Len(df) |->
        [c \in DOMAIN df[i] \cup {column} |->
            IF i = idx /\ c = column THEN value
            ELSE IF c \in DOMAIN df[i] THEN df[i][c]
            ELSE NaN]]

apply_update(df, update) ==
    LET idx == first_index(mask(df, update.name))
    IN  set_cell(
            set_cell(
                set_cell(
                    set_cell(df, idx, "SEO Title", update.seo_title),
                    idx, "SEO Description", update.seo_description),
                idx, "_seo_keywords", update.keywords),
            idx, "_seo_updated", Now)

\* the catalogs tried
MaxCatalogRows == 2

CatalogColumns == {"Item Name", "SEO Title", "SEO Description", "Categories"}

CatalogRows ==
    {[c \in CatalogColumns |->
        CASE c = "Item Name" -> name
          [] c = "SEO Title" -> title
          [] c = "SEO Description" -> <<"old description">>
          [] OTHER -> <<"category">>] :
        name \in {<<"P">>, <<"P", " ">>, <<"p">>, <<"Q">>, NaN},
        title \in {NaN, <<"old title">>}}

InitUpdate ==
    /\ \E n \in 0..MaxCatalogRows : u_input \in [1..n -> CatalogRows]
    /\ u_df = <<>>
    /\ u_next = 0
    /\ updated_count = 0
    /\ u_output = <<>>
    /\ pc = "read"
    /\ MergeIdle /\ EvalIdle
    /\ CompareIdle /\ ValidateIdle /\ WriteIdle /\ NormalizeIdle

ReadCatalog ==
    /\ pc = "read"
    /\ u_df' = u_input
    /\ u_next' = 1
    /\ updated_count' = 0
    /\ pc' = "update"
    /\ UNCHANGED <<merge_vars, eval_vars, compare_vars, validate_vars,
                   write_vars, normalize_vars, u_input, u_output>>

ApplyUpdate ==
    /\ pc = "update"
    /\ u_next <= Len(seo_updates)
    /\ IF mask(u_df, seo_updates[u_next].name) # {}
       THEN /\ u_df' = apply_update(u_df, seo_updates[u_next])
            /\ updated_count' = updated_count + 1
       ELSE UNCHANGED <<u_df, updated_count>>
    /\ u_next' = u_next + 1
    /\ UNCHANGED <<merge_vars, eval_vars, compare_vars, validate_vars,
                   write_vars, normalize_vars, u_input, u_output, pc>>

SaveCatalog ==
    /\ pc = "update"
    /\ u_next > Len(seo_updates)
    /\ u_output' = Append(u_output, [path |-> OutputPath, rows |-> u_df])
    /\ pc' = "saved"
    /\ UNCHANGED <<merge_vars, eval_vars, compare_vars, validate_vars,
                   write_vars, normalize_vars, u_input, u_df, u_next,
                   updated_count>>

NextUpdate ==
    \/ ReadCatalog
    \/ ApplyUpdate
    \/ SaveCatalog

SpecUpdate == InitUpdate /\ [][NextUpdate]_vars

----------------------------------------------------------------------------
(* Vocabulary of the properties, stated on the input tables *)

Table(src) ==
    IF src = "square" THEN square_df
    ELSE IF src = "palka" THEN palka_df ELSE tbd_df

\* Item Name trimmed and lower-cased; a missing name has the empty key
NormalizedKey(name) ==
    IF isna(name) THEN <<>>
    ELSE LET inked == {i \in 1..Len(name) : name[i] # " "}
             first == CHOOSE i \in inked : \A j \in inked : i <= j
             last  == CHOOSE i \in inked : \A j \in inked : j <= i
         IN  IF inked = {} THEN <<>>
             ELSE [i \in 1..(last - first + 1) |->
                     LET c == name[first + i - 1]
                     IN  IF c = "A" THEN "a" ELSE IF c = "B" THEN "b" ELSE c]

RowsOfKey(src, key) ==
    {i \in 1..Len(Table(src)) : NormalizedKey(Table(src)[i].ItemName) = key}

HasKey(src, key) == RowsOfKey(src, key) # {}

\* the first row of the source, in row order, with this key
FirstRow(src, key) ==
    LET rows == RowsOfKey(src, key)
    IN  Table(src)[CHOOSE i \in rows : \A j \in rows : i <= j]

KeysOf(src) ==
    {NormalizedKey(Table(src)[i].ItemName) : i \in 1..Len(Table(src))} \ {<<>>}

InputKeys == KeysOf("square") \cup KeysOf("palka") \cup KeysOf("tbd")

\* the row the merged record of a key starts from
BaseRow(key) ==
    IF HasKey("square", key) THEN FirstRow("square", key)
    ELSE IF HasKey("palka", key) THEN FirstRow("palka", key)
    ELSE FirstRow("tbd", key)

MergedRecords == {merged_catalog[i] : i \in 1..Len(merged_catalog)}

KeyOf(m) == NormalizedKey(m.ItemName)

HasNote(m, field, src) ==
    \E i \in 1..Len(m._merge_notes) : m._merge_notes[i] = field \o ":" \o src

HasNoteFor(m, field) == \E src \in Sources : HasNote(m, field, src)

\* a cell that holds something: not missing, not blank, not the text nan
Present(v) == ~isna(v) /\ v # <<>> /\ v # NanText

Blank(v) == isna(v) \/ v = <<>>

LoopFinished == pc \in {"done", "failed"} \/ (pc = "merge" /\ todo = <<>>)

----------------------------------------------------------------------------
(* C1..C10 *)

\* C1: the SEO score of a (title, description) pair is the sum over the two
\* parts of 100 + length for a present part (not missing, not blank, not the
\* text nan) and 0 for an absent one; a pair of two blanks scores 0.
C1_SeoScoreCountsPresentParts ==
    pc = "seo_scored" =>
        eval_score =
            (IF Present(eval_title) THEN 100 + Len(eval_title) ELSE 0)
            + (IF Present(eval_desc) THEN 100 + Len(eval_desc) ELSE 0)

\* C2: when no row of any source supplies a present SEO title or a present
\* SEO description for a key, the merged record keeps the base row's SEO
\* Title and SEO Description and carries no seo: note.
C2_NoSeoWinnerWithoutSeoData ==
    \A m \in MergedRecords :
        (\A src \in Sources : \A i \in RowsOfKey(src, KeyOf(m)) :
            /\ ~Present(Table(src)[i].SEOTitle)
            /\ ~Present(Table(src)[i].SEODescription))
        => /\ m.SEOTitle = BaseRow(KeyOf(m)).SEOTitle
           /\ m.SEODescription = BaseRow(KeyOf(m)).SEODescription
           /\ ~HasNoteFor(m, "seo")

\* the source the fixed precedence takes Categories from: source B when its
\* first row holds a value, else source A when its first row holds one
PickedSource(key) ==
    IF HasKey("palka", key) /\ ~isna(FirstRow("palka", key).Categories)
    THEN "palka"
    ELSE IF HasKey("square", key) /\ ~isna(FirstRow("square", key).Categories)
    THEN "square"
    ELSE "none"

OnlyInTbd(key) ==
    HasKey("tbd", key) /\ ~HasKey("square", key) /\ ~HasKey("palka", key)

\* C3 as stated: Categories is source B's value when B has one, else source
\* A's, else unset with no cat: note; never a value of source C's row.
C3_CategoriesNeverFromSourceC ==
    \A m \in MergedRecords :
        IF PickedSource(KeyOf(m)) # "none"
        THEN m.Categories = FirstRow(PickedSource(KeyOf(m)), KeyOf(m)).Categories
        ELSE isna(m.Categories) /\ ~HasNoteFor(m, "cat")

\* C3 amended: Categories is source B's value when B has one, else source
\* A's; otherwise there is no cat: note and Categories keeps the base row's
\* value, which is source C's when the key occurs only in source C and
\* missing in every other case.
C3_CategoriesPrecedence ==
    \A m \in MergedRecords :
        IF PickedSource(KeyOf(m)) # "none"
        THEN m.Categories = FirstRow(PickedSource(KeyOf(m)), KeyOf(m)).Categories
        ELSE /\ ~HasNoteFor(m, "cat")
             /\ m.Categories =
                    IF OnlyInTbd(KeyOf(m))
                    THEN FirstRow("tbd", KeyOf(m)).Categories ELSE NaN

C3_Witness ==
    \E m \in MergedRecords :
        /\ OnlyInTbd(KeyOf(m))
        /\ ~isna(FirstRow("tbd", KeyOf(m)).Categories)
        /\ m.Categories = FirstRow("tbd", KeyOf(m)).Categories

\* C4: evaluate_description gives 0 for a missing value, the empty text and
\* the text nan; for any other text its length, plus 50 when it contains a
\* period, plus 100 when it is longer than 100 characters.
C4_DescriptionScore ==
    pc = "description_scored" =>
        eval_score =
            IF eval_desc \in {NaN, <<>>, NanText} THEN 0
            ELSE Len(eval_desc)
                 + (IF {i \in 1..Len(eval_desc) : eval_desc[i] = "."} # {}
                    THEN 50 ELSE 0)
                 + (IF Len(eval_desc) > 100 THEN 100 ELSE 0)

C4_Witness ==
    /\ pc = "description_scored"
    /\ Len(eval_desc) = 100
    /\ eval_score = 100

\* the description a source offers for a key: its first row's, or blank
DescriptionCandidate(src, key) ==
    IF HasKey(src, key) THEN FirstRow(src, key).Description ELSE <<>>

\* C5: when the description candidates of all three sources are missing or
\* blank, the merged Description is the base row's and there is no desc:
\* note.
C5_NoDescriptionWinnerWhenAllBlank ==
    \A m \in MergedRecords :
        (\A src \in Sources : Blank(DescriptionCandidate(src, KeyOf(m))))
        => /\ m.Description = BaseRow(KeyOf(m)).Description
           /\ ~HasNoteFor(m, "desc")

C5_Witness ==
    \E m \in MergedRecords :
        /\ \A src \in Sources : Blank(DescriptionCandidate(src, KeyOf(m)))
        /\ HasKey("square", KeyOf(m)) /\ HasKey("palka", KeyOf(m))
        /\ FirstRow("square", KeyOf(m)).Description = <<>>
        /\ isna(FirstRow("palka", KeyOf(m)).Description)
        /\ m.Description = <<>>

Rank(src) == IF src = "square" THEN 1 ELSE IF src = "palka" THEN 2 ELSE 3

DescriptionScore(src, key) ==
    evaluate_description(DescriptionCandidate(src, key))

\* C6: the description winner has the highest score, that score is not zero,
\* and no source earlier in the order square, palka, tbd has the same score;
\* a key whose highest score is not zero has a winner.  The winner is so a
\* function of the three tables.
C6_DescriptionTieGoesToEarlierSource ==
    \A m \in MergedRecords :
        LET key   == KeyOf(m)
            score == [square |-> DescriptionScore("square", key),
                      palka  |-> DescriptionScore("palka", key),
                      tbd    |-> DescriptionScore("tbd", key)]
        IN  /\ \A s \in Sources :
                HasNote(m, "desc", s) =>
                    /\ score[s] > 0
                    /\ m.Description = DescriptionCandidate(s, key)
                    /\ \A t \in Sources :
                        /\ score[t] <= score[s]
                        /\ Rank(t) < Rank(s) => score[t] < score[s]
            /\ (\E t \in Sources : score[t] > 0) => HasNoteFor(m, "desc")
            /\ Cardinality({s \in Sources : HasNote(m, "desc", s)}) <= 1

C6_Witness ==
    \E m \in MergedRecords :
        /\ HasNote(m, "desc", "palka")
        /\ DescriptionScore("tbd", KeyOf(m)) = DescriptionScore("palka", KeyOf(m))
        /\ DescriptionCandidate("tbd", KeyOf(m)) # DescriptionCandidate("palka", KeyOf(m))
        /\ HasKey("square", KeyOf(m))

\* C7: a record with a seo:<source> note has that source's row's SEO Title
\* and SEO Description.
C7_SeoPairFromWinningRow ==
    \A m \in MergedRecords : \A s \in Sources :
        HasNote(m, "seo", s) =>
            /\ HasKey(s, KeyOf(m))
            /\ m.SEOTitle = FirstRow(s, KeyOf(m)).SEOTitle
            /\ m.SEODescription = FirstRow(s, KeyOf(m)).SEODescription

IndexBuilt == pc \in {"merge", "done", "failed"}

\* C8: the merged output has one record per distinct normalized key of the
\* three inputs, so as many rows as the union of the key sets has members;
\* the index groups rows exactly by normalized key.
C8_OneRecordPerNormalizedKey ==
    /\ LoopFinished =>
        /\ Len(merged_catalog) = Cardinality(InputKeys)
        /\ {KeyOf(m) : m \in MergedRecords} = InputKeys
    /\ pc = "done" =>
        /\ Len(output_file) = Cardinality(InputKeys)
        /\ {KeyOf(output_file[i]) : i \in 1..Len(output_file)} = InputKeys
    /\ IndexBuilt =>
        /\ DOMAIN product_index = InputKeys
        /\ \A k \in DOMAIN product_index : \A s \in Sources :
            /\ Len(product_index[k][s]) = Cardinality(RowsOfKey(s, k))
            /\ \A j \in 1..Len(product_index[k][s]) :
                \E i \in RowsOfKey(s, k) : product_index[k][s][j] = Table(s)[i]

C8_Witness ==
    /\ pc = "done"
    /\ Len(square_df) + Len(palka_df) + Len(tbd_df) = 3
    /\ Len(output_file) = 2
    /\ \E m \in MergedRecords :
        /\ HasKey("square", KeyOf(m)) /\ HasKey("palka", KeyOf(m))
        /\ FirstRow("square", KeyOf(m)).ItemName # FirstRow("palka", KeyOf(m)).ItemName

\* the sources with a row for the key, in the order square, palka, tbd
ContributingSources(key) ==
    (IF HasKey("square", key) THEN <<"square">> ELSE <<>>)
    \o (IF HasKey("palka", key) THEN <<"palka">> ELSE <<>>)
    \o (IF HasKey("tbd", key) THEN <<"tbd">> ELSE <<>>)

\* C9: _merge_sources is the list of the sources with at least one row for
\* the key, each once, in the order square, palka, tbd, separated by ", ".
C9_MergeSourcesListsContributors ==
    \A m \in MergedRecords :
        LET tags == ContributingSources(KeyOf(m))
        IN  /\ Len(m._merge_sources) = 2 * Len(tags) - 1
            /\ \A i \in 1..Len(tags) : m._merge_sources[2 * i - 1] = tags[i]
            /\ \A i \in 1..(Len(tags) - 1) : m._merge_sources[2 * i] = ", "

C9_Witness ==
    \E m \in MergedRecords :
        /\ ContributingSources(KeyOf(m)) = <<"square", "tbd">>
        /\ m._merge_sources = <<"square", ", ", "tbd">>

\* the index entry of a key with the later duplicate rows removed
FirstRowOnly(src, key) ==
    IF HasKey(src, key) THEN <<FirstRow(src, key)>> ELSE <<>>

FirstRowsOnly(key) ==
    [square |-> FirstRowOnly("square", key),
     palka  |-> FirstRowOnly("palka", key),
     tbd    |-> FirstRowOnly("tbd", key)]

\* C10: the merged record of a key is the one built from the first row of
\* each source alone; later rows with the same key change no field of it.
C10_OnlyFirstDuplicateUsed ==
    \A m \in MergedRecords :
        LET firsts == FirstRowsOnly(KeyOf(m))
        IN  m = merge_row(firsts)

C10_Witness ==
    \E m \in MergedRecords : \E i, j \in RowsOfKey("palka", KeyOf(m)) :
        /\ i < j
        /\ palka_df[i].Description # palka_df[j].Description
        /\ palka_df[i].Categories # palka_df[j].Categories
        /\ HasKey("square", KeyOf(m))

----------------------------------------------------------------------------
(* C11..C18, the merge script *)

\* C11: the merged record starts from the base row, source A's first row for
\* the key if A has one, else source B's, else source C's: its Item Name and
\* SKU, the fields the merge does not overlay, are the base row's, and it
\* has the base row's columns plus the two provenance columns.  No step
\* changes a row of the three tables, nor a row held in the index.
C11_State ==
    /\ \A m \in MergedRecords :
        LET base == BaseRow(KeyOf(m))
        IN  /\ m.ItemName = base.ItemName
            /\ m.SKU = base.SKU
            /\ DOMAIN m = DOMAIN base \cup {"_merge_sources", "_merge_notes"}
    /\ IndexBuilt =>
        \A k \in DOMAIN product_index : \A s \in Sources :
            \A j \in 1..Len(product_index[k][s]) :
                \E i \in RowsOfKey(s, k) : product_index[k][s][j] = Table(s)[i]

C11_BaseRowAndPassthrough ==
    /\ []C11_State
    /\ [][/\ square_df' = square_df
          /\ palka_df' = palka_df
          /\ tbd_df' = tbd_df]_vars

C11_Witness ==
    \E m \in MergedRecords :
        /\ ~HasKey("square", KeyOf(m))
        /\ HasKey("palka", KeyOf(m))
        /\ HasKey("tbd", KeyOf(m))
        /\ m.SKU = FirstRow("palka", KeyOf(m)).SKU
        /\ m.ItemName # FirstRow("tbd", KeyOf(m)).ItemName
        /\ HasNote(m, "desc", "tbd")

\* the code point of a character
CodePoint(c) ==
    CASE c = " " -> 32  [] c = "," -> 44  [] c = "." -> 46
      [] c = "A" -> 65  [] c = "B" -> 66  [] c = "C" -> 67  [] c = "L" -> 76
      [] c = "R" -> 82  [] c = "T" -> 84  [] c = "Z" -> 90  [] c = "\\" -> 92
      [] c = "a" -> 97  [] c = "b" -> 98  [] c = "c" -> 99  [] c = "d" -> 100
      [] c = "e" -> 101 [] c = "h" -> 104 [] c = "i" -> 105 [] c = "n" -> 110
      [] c = "o" -> 111 [] c = "p" -> 112 [] c = "r" -> 114 [] c = "t" -> 116
      [] c = "u" -> 117 [] c = "x" -> 120 [] c = "y" -> 121 [] c = "z" -> 122

\* a <= b for two texts: equal, or at the first position where they differ
\* a has ended or holds the smaller character
TextLeq(a, b) ==
    \/ a = b
    \/ \E i \in 1..Len(b) :
        /\ \A j \in 1..(i - 1) : j <= Len(a) /\ a[j] = b[j]
        /\ \/ i = Len(a) + 1
           \/ i <= Len(a) /\ CodePoint(a[i]) < CodePoint(b[i])

\* C12: the written catalog holds the merged records ordered by Item Name
\* ascending: each row's Item Name is less than or equal to the next row's,
\* and a row without Item Name is followed only by rows without one.
C12_OutputSortedByItemName ==
    pc = "done" =>
        /\ Len(output_file) = Len(merged_catalog)
        /\ {output_file[i] : i \in 1..Len(output_file)} = MergedRecords
        /\ \A i \in 1..(Len(output_file) - 1) :
            LET x == output_file[i].ItemName
                y == output_file[i + 1].ItemName
            IN  /\ isna(x) => isna(y)
                /\ (~isna(x) /\ ~isna(y)) => TextLeq(x, y)

C12_Witness ==
    /\ pc = "done"
    /\ Len(output_file) = 2
    /\ output_file[1] = merged_catalog[2]
    /\ output_file[2] = merged_catalog[1]

\* C16: when the read of one of the three workbooks fails the run ends
\* before indexing: nothing is indexed, no merged record is built and no
\* catalog is written, whatever was read before.
C16_FailedLoadAborts ==
    (pc # "load" /\ loaded # Sources) =>
        /\ pc = "aborted"
        /\ product_index = <<>>
        /\ merged_catalog = <<>>
        /\ output_file = <<>>

C16_Witness ==
    /\ pc = "aborted"
    /\ loaded = {"square", "palka"}
    /\ square_df # <<>>
    /\ palka_df # <<>>
    /\ output_file = <<>>

\* C17: every source named in a note of a merged record, desc:, seo: or cat:,
\* has a row for the record's key, so it is listed in _merge_sources.
C17_NotedSourcesContributed ==
    \A m \in MergedRecords : \A f \in {"desc", "seo", "cat"} :
        \A s \in Sources : HasNote(m, f, s) => HasKey(s, KeyOf(m))

\* C18: after the loop merge_count is the number of merged records with two
\* or more contributing sources.
C18_MergeCountCountsMultiSource ==
    LoopFinished =>
        merge_count =
            Cardinality({i \in 1..Len(merged_catalog) :
                Len(ContributingSources(KeyOf(merged_catalog[i]))) >= 2})

----------------------------------------------------------------------------
(* C19, compare-products-for-merge *)

\* C19: each product's sources list holds each source tag at most once, so
\* the single-source, two-source and three-source totals add up to the
\* number of unique products.
C19_SourcesListedOnce ==
    pc = "counted" =>
        /\ \A k \in DOMAIN all_products : \A s \in Sources :
            Cardinality({i \in 1..Len(all_products[k].sources) :
                            all_products[k].sources[i] = s}) <= 1
        /\ source_counts.single_source + source_counts.double_source
            + source_counts.triple_source = source_counts.total

----------------------------------------------------------------------------
(* C20, normalize_multi_category_cell *)

\* the non-empty trimmed labels of a text, renamed by the two rules
RenamedLabels(text) ==
    LET pieces == split(text, ",")
        labels == {strip(pieces[i]) : i \in 1..Len(pieces)} \ {<<>>}
    IN  {IF l = TRTR_Curated THEN The_Apothecary_Cabinet
         ELSE IF l = Labz THEN Curated_Labz
         ELSE l : l \in labels}

\* result lists exactly these labels, each once, in code point order,
\* separated by a comma and a space
ListedAs(result, labels) ==
    IF labels = {} THEN result = <<>>
    ELSE LET seg == split(result, ",")
             item(i) == IF i = 1 THEN seg[1] ELSE Tail(seg[i])
         IN  /\ \A i \in 2..Len(seg) : seg[i] # <<>> /\ Head(seg[i]) = " "
             /\ {item(i) : i \in 1..Len(seg)} = labels
             /\ \A i \in 1..(Len(seg) - 1) :
                    item(i) # item(i + 1) /\ TextLeq(item(i), item(i + 1))

C20_Idempotent == pc = "renormalized" => n_twice = n_once

C20_NonTextUnchanged ==
    (pc # "normalize" /\ (n_cell = NaN \/ n_cell = NotAString)) => n_once = n_cell

\* C20: normalising twice gives what normalising once gives; a null or
\* non-string cell is returned unchanged; for a string the result is the
\* sorted, comma-separated list of the cell's distinct non-empty trimmed
\* labels, with the two renames applied.
C20_ResultListsCellLabels ==
    /\ C20_Idempotent
    /\ C20_NonTextUnchanged
    /\ (pc # "normalize" /\ n_cell # NaN /\ n_cell # NotAString) =>
            ListedAs(n_once, RenamedLabels(n_cell))

\* C20 amended: as above, the labels being those of the cell after every
\* backslash has been removed from it.
C20_ResultListsLabelsSansBackslash ==
    /\ C20_Idempotent
    /\ C20_NonTextUnchanged
    /\ (pc # "normalize" /\ n_cell # NaN /\ n_cell # NotAString) =>
            ListedAs(n_once,
                     RenamedLabels(SelectSeq(n_cell, LAMBDA c : c # "\\")))

\* a cell with a backslash and the label Labz, normalised twice
C20_Witness ==
    /\ pc = "renormalized"
    /\ \E i \in 1..Len(n_cell) : n_cell[i] = "\\"
    /\ n_once = Curated_Labz
    /\ n_twice = Curated_Labz

----------------------------------------------------------------------------
(* C13, validate_values *)

Reported(e) == in_list(e, printed)

\* what the values of a column are, stated on the table
StrippedValues(field) ==
    {strip(v_cells[i][field]) : i \in {j \in 1..Len(v_cells) :
                                        v_cells[j][field] # NaN}}

HeaderProblem == REQUIRED_COLUMNS \ v_columns # {}

ColumnProblem(check) == check.field \notin v_columns

ValueProblem(check) ==
    check.field \in v_columns /\ check.expected \notin StrippedValues(check.field)

\* C13: one invocation runs the header check and all four value checks and
\* reports every problem found, whatever the earlier checks found; the
\* success message is printed only when no problem was found.
C13_EveryProblemReported ==
    pc = "validated" =>
        /\ HeaderProblem <=>
            Reported([kind |-> "missing_headers",
                      headers |-> REQUIRED_COLUMNS \ v_columns])
        /\ \A i \in 1..Len(REQUIRED_VALUES) :
            LET check == REQUIRED_VALUES[i]
            IN  /\ ColumnProblem(check) <=>
                    Reported([kind |-> "missing_column", field |-> check.field])
                /\ ValueProblem(check) <=>
                    \E e \in {printed[k] : k \in 1..Len(printed)} :
                        e.kind = "unexpected_value" /\ e.field = check.field
        /\ printed = Success <=>
            /\ ~HeaderProblem
            /\ \A i \in 1..Len(REQUIRED_VALUES) :
                /\ ~ColumnProblem(REQUIRED_VALUES[i])
                /\ ~ValueProblem(REQUIRED_VALUES[i])

\* no Token column and a Sold Online column holding only "N": both reported
C13_Witness ==
    /\ pc = "validated"
    /\ "Token" \notin v_columns
    /\ "Sold Online" \in v_columns
    /\ v_cells # <<>>
    /\ \A i \in 1..Len(v_cells) : v_cells[i]["Sold Online"] = <<"N">>
    /\ \E e \in {printed[k] : k \in 1..Len(printed)} :
        e.kind = "missing_headers" /\ "Token" \in e.headers
    /\ Reported([kind |-> "unexpected_value", field |-> "Sold Online",
                 found |-> <<<<"N">>>>])

----------------------------------------------------------------------------
(* C14, safe_excel_write *)

\* the positions of the frame whose column is to be written
KeptColumns ==
    {i \in 1..Len(w_columns) :
        /\ w_columns[i].header # Unnamed_0
        /\ \A j \in 1..(i - 1) : w_columns[j].header # w_columns[i].header}

\* the k-th kept position, counting from the left
KeptAt(k) ==
    CHOOSE i \in KeptColumns : Cardinality({j \in KeptColumns : j <= i}) = k

\* C14: the written columns are the input columns under their trimmed
\* headers, without the columns named 'Unnamed: 0' and without every later
\* occurrence of a name that already occurred, in the original order.
C14_WrittenColumns ==
    pc = "written" =>
        /\ \A i \in 1..Len(w_columns) :
            /\ w_columns[i].header # NaN
            /\ w_columns[i].header = <<>>
                \/ (Head(w_columns[i].header) # " "
                    /\ w_columns[i].header[Len(w_columns[i].header)] # " ")
        /\ Len(w_file) = Cardinality(KeptColumns)
        /\ \A k \in 1..Len(w_file) :
            /\ w_file[k].header = w_columns[KeptAt(k)].header
            /\ w_file[k].cell = <<ToString(KeptAt(k))>>

\* a frame with an 'Unnamed: 0' column and a repeated name, written
C14_Witness ==
    /\ pc = "written"
    /\ \E i \in 1..Len(w_columns) : w_columns[i].header = Unnamed_0
    /\ \E i, j \in 1..Len(w_columns) :
        /\ i < j
        /\ w_columns[i].header = w_columns[j].header
        /\ w_columns[i].header # Unnamed_0
        /\ w_file = <<[header |-> w_columns[i].header, cell |-> <<ToString(i)>>]>>

----------------------------------------------------------------------------
(* C15, manual-seo-updates *)

SeoColumns == {"SEO Title", "SEO Description", "_seo_keywords", "_seo_updated"}

\* the entry whose name is this row's Item Name, the row being the first
\* with that name; 0 when there is none
EntryFor(i) ==
    LET hits == {e \in 1..Len(seo_updates) :
                    /\ seo_updates[e].name = u_input[i]["Item Name"]
                    /\ \A j \in 1..(i - 1) :
                        u_input[j]["Item Name"] # u_input[i]["Item Name"]}
    IN  IF hits = {} THEN 0 ELSE CHOOSE e \in hits : TRUE

\* C15: an entry changes the catalog only through an exact Item Name match:
\* the first row with the entry's name gets the four SEO fields overwritten
\* and nothing else; all other cells keep their loaded values; an entry
\* without a match is not counted; the result goes to a new file and the
\* input file is not written.
C15_OnlyExactMatchesUpdated ==
    pc = "saved" =>
        /\ Len(u_df) = Len(u_input)
        /\ \A i \in 1..Len(u_input) :
            /\ \A c \in DOMAIN u_input[i] \ SeoColumns :
                u_df[i][c] = u_input[i][c]
            /\ IF EntryFor(i) # 0
               THEN /\ u_df[i]["SEO Title"] = seo_updates[EntryFor(i)].seo_title
                    /\ u_df[i]["SEO Description"] =
                        seo_updates[EntryFor(i)].seo_description
                    /\ u_df[i]["_seo_keywords"] = seo_updates[EntryFor(i)].keywords
                    /\ u_df[i]["_seo_updated"] = Now
               ELSE /\ \A c \in DOMAIN u_input[i] : u_df[i][c] = u_input[i][c]
                    /\ \A c \in DOMAIN u_df[i] \ DOMAIN u_input[i] :
                        u_df[i][c] = NaN
        /\ updated_count =
            Cardinality({e \in 1..Len(seo_updates) :
                \E i \in 1..Len(u_input) :
                    u_input[i]["Item Name"] = seo_updates[e].name})
        /\ u_output = <<[path |-> OutputPath, rows |-> u_df]>>
        /\ \A k \in 1..Len(u_output) : u_output[k].path # InputPath

\* two rows named exactly as an entry and a third that differs by a space:
\* only the first is rewritten, and one update is counted
C15_Witness ==
    /\ pc = "saved"
    /\ Len(u_input) >= 2
    /\ u_input[1]["Item Name"] = <<"P">>
    /\ u_input[2]["Item Name"] \in {<<"P">>, <<"P", " ">>}
    /\ u_df[1]["SEO Title"] = <<"title P">>
    /\ u_df[2]["SEO Title"] = u_input[2]["SEO Title"]
    /\ updated_count = 1

====
